---- MODULE Spec2Model ----
(***************************************************************************)
(* changemon.py: compare two directory trees (--compare) or watch one     *)
(* directory for changes in a polling loop (--watch).                     *)
(*                                                                         *)
(* Path strings are sequences of one-character strings, so that join,     *)
(* commonprefix, replace and sorted act on the characters as the Python    *)
(* string operations do.                                                   *)
(***************************************************************************)
EXTENDS Integers, Sequences, FiniteSets, TLC

VARIABLES
    fs,             \* the file system: directory id -> [exists, dirs, files]
    args,           \* parsed command line: flags, skip_checksum, watch, compare
    pc,             \* position of the program
    err,            \* exception that ended the program, "none" if none
    bound,          \* names of monitor()'s locals that have been assigned
    pre_state,      \* monitor(): previous snapshot
    cur_state,      \* monitor(): current snapshot
    pre_checksums,  \* monitor(): checksum map taken for pre_state
    cur_checksums,  \* monitor(): checksum map taken for cur_state
    cmp,            \* locals of the last comparison() call
    compared,       \* the groups last handed to pretty_watch / pretty_compare
    cycles,         \* completed monitor cycles
    envSteps,       \* file-system changes made by the environment so far
    deletedAt       \* where monitor() was when the watched root was deleted

vars == <<fs, args, pc, err, bound, pre_state, cur_state, pre_checksums,
          cur_checksums, cmp, compared, cycles, envSteps, deletedAt>>

----------------------------------------------------------------------------
(* Bounds *)

MaxFlagLen == 3
MaxCycles == 2
MaxEnvSteps == 1

----------------------------------------------------------------------------
(* Strings *)

SEP == "/"

Range(s) == {s[i] : i \in 1..Len(s)}

In(x, s) == \E i \in 1..Len(s) : s[i] = x

startswith(s, pre) ==
    Len(pre) <= Len(s) /\ SubSeq(s, 1, Len(pre)) = pre

endswith(s, suf) ==
    Len(suf) <= Len(s) /\ SubSeq(s, Len(s) - Len(suf) + 1, Len(s)) = suf

\* Code points of the characters that occur in paths.
CharCode(c) ==
    CASE c = "/" -> 47
      [] c = "d" -> 100
      [] c = "f" -> 102
      [] c = "v" -> 118
      [] c = "w" -> 119

RECURSIVE StrLess(_, _)
StrLess(s, t) ==
    IF s = <<>> THEN t # <<>>
    ELSE IF t = <<>> THEN FALSE
    ELSE IF Head(s) = Head(t) THEN StrLess(Tail(s), Tail(t))
    ELSE CharCode(Head(s)) < CharCode(Head(t))

RECURSIVE Insert(_, _)
Insert(x, l) ==
    IF l = <<>> THEN <<x>>
    ELSE IF StrLess(x, Head(l)) THEN <<x>> \o l
    ELSE <<Head(l)>> \o Insert(x, Tail(l))

RECURSIVE sorted(_)
sorted(l) ==
    IF l = <<>> THEN <<>> ELSE Insert(Head(l), sorted(Tail(l)))

lower(c) ==
    CASE c = "A" -> "a"
      [] c = "C" -> "c"
      [] c = "R" -> "r"
      [] c = "S" -> "s"
      [] c = "U" -> "u"
      [] OTHER -> c

\* os.path.join(a, b)
join(a, b) ==
    IF startswith(b, <<SEP>>) THEN b
    ELSE IF a = <<>> \/ endswith(a, <<SEP>>) THEN a \o b
    ELSE a \o <<SEP>> \o b

with_sep(s) == join(s, <<>>)

\* os.path.commonprefix(m): the longest string that is a prefix of every
\* element of the non-empty set m.
commonprefix(m) ==
    LET some == CHOOSE s \in m : TRUE
        n == CHOOSE k \in 0..Len(some) :
                /\ \A s \in m : startswith(s, SubSeq(some, 1, k))
                /\ \A j \in (k+1)..Len(some) :
                      \E s \in m : ~startswith(s, SubSeq(some, 1, j))
    IN  SubSeq(some, 1, n)

\* s.replace(sub, '', 1)
erase_from(s, sub) ==
    LET hits == {i \in 1..(Len(s) - Len(sub) + 1) :
                    SubSeq(s, i, i + Len(sub) - 1) = sub}
    IN  IF sub = <<>> \/ hits = {} THEN s
        ELSE LET i == CHOOSE h \in hits : \A g \in hits : h <= g
             IN  SubSeq(s, 1, i - 1) \o SubSeq(s, i + Len(sub), Len(s))

----------------------------------------------------------------------------
(* The file system *)

D == <<"d">>            \* name of the one subdirectory
F == <<"f">>            \* name of the one file a directory can hold
DF == join(D, F)        \* the file inside the subdirectory

DirIds == {"v", "w"}
Contents == {"foo", "bar", "quux"}
Mtimes == {1, 2}
Attrs == [content : Contents, mtime : Mtimes]

Gone == [exists |-> FALSE, dirs |-> {}, files |-> <<>>]

\* The directory a root path names ("w" and "w/" name the same directory).
DirOf(path) == CHOOSE k \in DirIds : path \in {<<k>>, <<k, SEP>>}

exists(fsys, path) == fsys[DirOf(path)].exists

FileHits(fsys, path) ==
    {<<k, p>> \in DirIds \X {F, DF} :
        /\ fsys[k].exists
        /\ p \in DOMAIN fsys[k].files
        /\ join(<<k>>, p) = path}

isfile(fsys, path) == FileHits(fsys, path) # {}

stat(fsys, path) ==
    LET h == CHOOSE x \in FileHits(fsys, path) : TRUE
    IN  fsys[h[1]].files[h[2]]

\* Number of bytes of a content.
SizeOf(c) == CASE c = "foo" -> 3 [] c = "bar" -> 3 [] c = "quux" -> 4

\* os.path.getsize / os.path.getmtime / checksum(f) of an existing file
getsize(fsys, path) == SizeOf(stat(fsys, path).content)

getmtime(fsys, path) == stat(fsys, path).mtime

checksum(fsys, path) ==
    LET c == stat(fsys, path).content
    IN  CASE c = "foo"  -> "acbd18db4cc2f85cedef654fccc4a4d8"
          [] c = "bar"  -> "37b51d194a7513e45b56f6524f2d51f2"
          [] c = "quux" -> "9fb045bba26522b2a50bb3e7a06ae30d"

\* list(os.walk(top, followlinks=True, onerror=report))
walk(fsys, top) ==
    LET d == fsys[DirOf(top)]
        here == [root  |-> top,
                 dirs  |-> IF D \in d.dirs THEN <<D>> ELSE <<>>,
                 files |-> IF F \in DOMAIN d.files THEN <<F>> ELSE <<>>]
        below == [root  |-> join(top, D),
                  dirs  |-> <<>>,
                  files |-> IF DF \in DOMAIN d.files THEN <<F>> ELSE <<>>]
    IN  IF ~d.exists THEN [raised |-> "OSError", tree |-> <<>>]
        ELSE [raised |-> "none",
              tree |-> IF D \in d.dirs THEN <<here, below>> ELSE <<here>>]

\* Absolute names of the files of a snapshot, in get_checksums' order.
RECURSIVE snapshot_files(_)
snapshot_files(tree) ==
    IF tree = <<>> THEN <<>>
    ELSE [i \in 1..Len(Head(tree).files) |->
              join(Head(tree).root, Head(tree).files[i])]
         \o snapshot_files(Tail(tree))

get_checksums(fsys, tree) ==
    LET names == Range(snapshot_files(tree))
    IN  IF \E n \in names : ~isfile(fsys, n)
        THEN [raised |-> "IOError", map |-> <<>>]
        ELSE [raised |-> "none",
              map |-> [n \in names |-> checksum(fsys, n)]]

----------------------------------------------------------------------------
(* differing() *)

\* differing() without the size tier: the chosen fingerprint alone decides.
differing_nosize(fsys, files, skip_checksum) ==
    IF ~isfile(fsys, files[1]) \/ ~isfile(fsys, files[2])
    THEN [raised |-> "OSError", value |-> FALSE, consulted |-> {"size"}]
    ELSE IF skip_checksum = FALSE
    THEN [raised |-> "none",
          value |-> checksum(fsys, files[1]) # checksum(fsys, files[2]),
          consulted |-> {"size", "checksum"}]
    ELSE [raised |-> "none",
          value |-> getmtime(fsys, files[1]) # getmtime(fsys, files[2]),
          consulted |-> {"size", "mtime"}]

differing(fsys, files, skip_checksum) ==
    IF ~isfile(fsys, files[1]) \/ ~isfile(fsys, files[2])
    THEN [raised |-> "OSError", value |-> FALSE, consulted |-> {"size"}]
    ELSE IF getsize(fsys, files[1]) # getsize(fsys, files[2])
    THEN [raised |-> "none", value |-> TRUE, consulted |-> {"size"}]
    ELSE IF skip_checksum = FALSE
    THEN [raised |-> "none",
          value |-> checksum(fsys, files[1]) # checksum(fsys, files[2]),
          consulted |-> {"size", "checksum"}]
    ELSE [raised |-> "none",
          value |-> getmtime(fsys, files[1]) # getmtime(fsys, files[2]),
          consulted |-> {"size", "mtime"}]

----------------------------------------------------------------------------
(* comparison() *)

RECURSIVE full_listing(_)
full_listing(t) ==
    IF t = <<>> THEN <<>>
    ELSE LET e == Head(t)
             items == e.files \o [i \in 1..Len(e.dirs) |-> with_sep(e.dirs[i])]
         IN  [i \in 1..Len(items) |-> join(e.root, items[i])]
             \o full_listing(Tail(t))

stripped_listing(root, l) ==
    [i \in 1..Len(l) |->
        erase_from(l[i], with_sep(commonprefix({root} \cup Range(l))))]

added(before_str, after_str) ==
    SelectSeq(after_str, LAMBDA p : ~In(p, before_str))

\* removed drawn from the wrong listing.
removed_from_after(before_str, after_str) ==
    SelectSeq(after_str, LAMBDA p : ~In(p, before_str))

removed(before_str, after_str) ==
    SelectSeq(before_str, LAMBDA p : ~In(p, after_str))

common(after_str, add) ==
    SelectSeq(after_str, LAMBDA p : ~In(p, add))

common_with_roots(root1, root2, com) ==
    LET files == SelectSeq(com, LAMBDA p : ~endswith(p, <<SEP>>))
    IN  [i \in 1..Len(files) |-> <<join(root1, files[i]), join(root2, files[i])>>]

changed(root1, differ) ==
    [i \in 1..Len(differ) |-> erase_from(differ[i][1], with_sep(root1))]

\* unchanged without the directory filter.
unchanged_with_dirs(com, chg) ==
    SelectSeq(com, LAMBDA p : ~In(p, chg))

unchanged(com, chg) ==
    SelectSeq(com, LAMBDA p : ~In(p, chg) /\ ~endswith(p, <<SEP>>))

groups(add, chg, rem, com, unch) ==
    << <<"a", "Added", add>>,
       <<"c", "Changed", chg>>,
       <<"r", "Removed", rem>>,
       <<"s", "Shared", com>>,
       <<"u", "Unchanged", unch>> >>

\* results built by walking the groups, not the flags.
results_by_group(flags, grps) ==
    LET want == SelectSeq(grps, LAMBDA g :
                    \E i \in 1..Len(flags) : lower(flags[i]) = g[1])
    IN  [i \in 1..Len(want) |-> <<want[i][2], sorted(want[i][3])>>]

RECURSIVE results(_, _)
results(flags, grps) ==
    IF flags = <<>> THEN <<>>
    ELSE LET f == lower(Head(flags))
             hits == {i \in 1..Len(grps) : grps[i][1] = f}
             first == CHOOSE i \in hits : \A j \in hits : i <= j
         IN  (IF hits = {} THEN <<>>
              ELSE << <<grps[first][2], sorted(grps[first][3])>> >>)
             \o results(Tail(flags), grps)

NoComparison ==
    [called |-> FALSE, raised |-> "none", flags |-> <<>>, skip_checksum |-> FALSE,
     root1 |-> <<>>, root2 |-> <<>>, added |-> <<>>, removed |-> <<>>,
     common |-> <<>>, common_with_roots |-> <<>>,
     detector |-> FALSE, probes |-> <<>>,
     changed |-> <<>>, unchanged |-> <<>>, results |-> <<>>]

comparison(fsys, flags, t1, t2, skip_checksum) ==
    LET root1 == t1[1].root
        root2 == t2[1].root
        before == full_listing(t1)
        after == full_listing(t2)
        before_str == stripped_listing(root1, before)
        after_str == stripped_listing(root2, after)
        add == added(before_str, after_str)
        rem == removed(before_str, after_str)
        com == common(after_str, add)
        cwr == common_with_roots(root1, root2, com)
        detector == In("c", flags) \/ In("u", flags)
        probes == [i \in 1..Len(cwr) |-> differing(fsys, cwr[i], skip_checksum)]
        failed == {i \in 1..Len(cwr) : probes[i].raised # "none"}
        differ == SelectSeq(cwr, LAMBDA p : differing(fsys, p, skip_checksum).value)
        chg == changed(root1, differ)
        unch == unchanged(com, chg)
        base == [NoComparison EXCEPT
                    !.called = TRUE, !.flags = flags,
                    !.skip_checksum = skip_checksum,
                    !.root1 = root1, !.root2 = root2,
                    !.added = add, !.removed = rem, !.common = com,
                    !.common_with_roots = cwr, !.detector = detector]
    IN  IF ~detector
        THEN [base EXCEPT !.raised = "NameError"]
        ELSE IF failed # {}
        THEN [base EXCEPT !.raised = "OSError", !.probes = probes]
        ELSE [base EXCEPT !.probes = probes, !.changed = chg, !.unchanged = unch,
                          !.results = results(flags, groups(add, chg, rem, com, unch))]

----------------------------------------------------------------------------
(* Inputs *)

FlagChars == {"a", "c", "r", "s", "u"}

\* Every flag string over FlagChars of at most MaxFlagLen characters.
FlagStrings == UNION {[1..n -> FlagChars] : n \in 0..MaxFlagLen}

\* Directories holding any of: the file f, the subdirectory d, the file d/f.
TreesOf(attrsF, attrsDF) ==
    UNION {{[exists |-> TRUE, dirs |-> ds, files |-> fl] :
              fl \in {g \in UNION {[S -> Attrs] : S \in SUBSET {F, DF}} :
                        /\ F \in DOMAIN g => g[F] \in attrsF
                        /\ DF \in DOMAIN g => (D \in ds /\ g[DF] \in attrsDF)}} :
           ds \in SUBSET {D}}

OldAttrs == {[content |-> "foo", mtime |-> 1]}
NestedAttrs == {[content |-> "foo", mtime |-> 1], [content |-> "bar", mtime |-> 2]}

----------------------------------------------------------------------------
(* Comparison mode: the program started with --compare v w *)

InitCompare ==
    /\ fs \in {[k \in DirIds |-> IF k = "v" THEN tv ELSE tw] :
                  tv \in TreesOf(OldAttrs, OldAttrs),
                  tw \in TreesOf(Attrs, NestedAttrs)}
    /\ args \in [flags : FlagStrings, skip_checksum : BOOLEAN,
                 watch : {<<"w">>}, compare : {<< <<"v">>, <<"w", SEP>> >>}]
    /\ pc = "main"
    /\ err = "none"
    /\ bound = {}
    /\ pre_state = <<>>
    /\ cur_state = <<>>
    /\ pre_checksums = <<>>
    /\ cur_checksums = <<>>
    /\ cmp = NoComparison
    /\ compared = <<>>
    /\ cycles = 0
    /\ envSteps = 0
    /\ deletedAt = "never"

\* __main__, args.compare set: walk both directories, compare, print.
CompareMode ==
    /\ pc = "main"
    /\ args.compare # <<>>
    /\ LET w1 == walk(fs, args.compare[1])
           w2 == walk(fs, args.compare[2])
           c == comparison(fs, args.flags, w1.tree, w2.tree, args.skip_checksum)
       IN  IF w1.raised # "none" \/ w2.raised # "none"
           THEN /\ pc' = "raised"
                /\ err' = "OSError"
                /\ UNCHANGED <<cmp, compared>>
           ELSE /\ cmp' = c
                /\ IF c.raised # "none"
                   THEN /\ pc' = "raised"
                        /\ err' = c.raised
                        /\ UNCHANGED compared
                   ELSE /\ pc' = "done"
                        /\ err' = "none"
                        /\ compared' = c.results
    /\ UNCHANGED <<fs, args, bound, pre_state, cur_state, pre_checksums,
                   cur_checksums, cycles, envSteps, deletedAt>>

NextCompare == CompareMode

SpecCompare == InitCompare /\ [][NextCompare]_vars

----------------------------------------------------------------------------
(* Watch mode: monitor() *)

WatchFlags ==
    { <<"c", "a", "r">>, <<"a", "c">>, <<"c", "s", "s">>, <<"c", "S">>,
      <<"a", "r">> }

InitWatchTrees ==
    {t \in TreesOf(OldAttrs, OldAttrs) : F \in DOMAIN t.files}

Init ==
    /\ fs \in {[k \in DirIds |-> IF k = "w" THEN t ELSE Gone] : t \in InitWatchTrees}
    /\ args \in [flags : WatchFlags, skip_checksum : BOOLEAN,
                 watch : {<<"w">>}, compare : {<<>>}]
    /\ pc = "while"
    /\ err = "none"
    /\ bound = {}
    /\ pre_state = <<>>
    /\ cur_state = <<>>
    /\ pre_checksums = <<>>
    /\ cur_checksums = <<>>
    /\ cmp = NoComparison
    /\ compared = <<>>
    /\ cycles = 0
    /\ envSteps = 0
    /\ deletedAt = "never"

Raise(e) ==
    /\ pc' = "raised"
    /\ err' = e

\* while os.path.exists(args.watch):
While ==
    /\ pc = "while"
    /\ cycles < MaxCycles
    /\ pc' = IF exists(fs, args.watch) THEN "pre_state" ELSE "done"
    /\ UNCHANGED <<fs, args, err, bound, pre_state, cur_state, pre_checksums,
                   cur_checksums, cmp, compared, cycles, envSteps, deletedAt>>

\* first_run detection and pre_state
PreState ==
    /\ pc = "pre_state"
    /\ IF "cur_state" \notin bound
       THEN LET w == walk(fs, args.watch)
            IN  /\ cur_state' = <<>>
                /\ IF w.raised # "none"
                   THEN /\ Raise(w.raised)
                        /\ bound' = bound \cup {"cur_state"}
                        /\ UNCHANGED pre_state
                   ELSE /\ pre_state' = w.tree
                        /\ bound' = bound \cup {"cur_state", "pre_state"}
                        /\ pc' = "pre_checksums"
                        /\ UNCHANGED err
       ELSE /\ pre_state' = cur_state
            /\ pc' = "pre_checksums"
            /\ UNCHANGED <<cur_state, bound, err>>
    /\ UNCHANGED <<fs, args, pre_checksums, cur_checksums, cmp, compared,
                   cycles, envSteps, deletedAt>>

\* if not args.skip_checksum: pre_checksums = get_checksums(pre_state)
PreChecksums ==
    /\ pc = "pre_checksums"
    /\ IF ~args.skip_checksum
       THEN LET r == get_checksums(fs, pre_state)
            IN  IF r.raised # "none"
                THEN /\ Raise(r.raised)
                     /\ UNCHANGED <<pre_checksums, bound>>
                ELSE /\ pre_checksums' = r.map
                     /\ bound' = bound \cup {"pre_checksums"}
                     /\ pc' = "sleep"
                     /\ UNCHANGED err
       ELSE /\ pc' = "sleep"
            /\ UNCHANGED <<pre_checksums, bound, err>>
    /\ UNCHANGED <<fs, args, pre_state, cur_state, cur_checksums, cmp,
                   compared, cycles, envSteps, deletedAt>>

\* time.sleep(args.interval)
Sleep ==
    /\ pc = "sleep"
    /\ pc' = "cur_state"
    /\ UNCHANGED <<fs, args, err, bound, pre_state, cur_state, pre_checksums,
                   cur_checksums, cmp, compared, cycles, envSteps, deletedAt>>

\* cur_state = list(os.walk(args.watch, followlinks=True, onerror=report))
CurState ==
    /\ pc = "cur_state"
    /\ LET w == walk(fs, args.watch)
       IN  IF w.raised # "none"
           THEN /\ Raise(w.raised)
                /\ UNCHANGED cur_state
           ELSE /\ cur_state' = w.tree
                /\ pc' = "cur_checksums"
                /\ UNCHANGED err
    /\ UNCHANGED <<fs, args, bound, pre_state, pre_checksums, cur_checksums,
                   cmp, compared, cycles, envSteps, deletedAt>>

\* if not args.skip_checksum: cur_checksums = get_checksums(cur_state)
CurChecksums ==
    /\ pc = "cur_checksums"
    /\ IF ~args.skip_checksum
       THEN LET r == get_checksums(fs, cur_state)
            IN  IF r.raised # "none"
                THEN /\ Raise(r.raised)
                     /\ UNCHANGED <<cur_checksums, bound>>
                ELSE /\ cur_checksums' = r.map
                     /\ bound' = bound \cup {"cur_checksums"}
                     /\ pc' = "compare"
                     /\ UNCHANGED err
       ELSE /\ pc' = "compare"
            /\ UNCHANGED <<cur_checksums, bound, err>>
    /\ UNCHANGED <<fs, args, pre_state, cur_state, pre_checksums, cmp,
                   compared, cycles, envSteps, deletedAt>>

\* if args.flags.find('s') == -1: args.flags += 's'
with_shared(flags) ==
    IF ~In("s", flags) THEN flags \o <<"s">> ELSE flags

\* The first loop over compared: the Shared group's paths whose checksums in
\* the two maps differ, and compared without its first Shared group.
reclassify(cmpd, pre, bnd, pre_sums, cur_sums) ==
    LET hits == {i \in 1..Len(cmpd) : cmpd[i][1] = "Shared"}
        i == CHOOSE h \in hits : \A g \in hits : h <= g
        seq == cmpd[i][2]
        key(fname) == join(pre[1].root, fname)
    IN  IF hits = {}
        THEN [raised |-> "none", changed |-> <<>>, compared |-> cmpd]
        ELSE IF seq # <<>> /\ "pre_checksums" \notin bnd
        THEN [raised |-> "NameError", changed |-> <<>>, compared |-> cmpd]
        ELSE IF \E n \in 1..Len(seq) :
                    /\ key(seq[n]) \in DOMAIN pre_sums
                    /\ "cur_checksums" \notin bnd
        THEN [raised |-> "NameError", changed |-> <<>>, compared |-> cmpd]
        ELSE IF \E n \in 1..Len(seq) :
                    /\ key(seq[n]) \in DOMAIN pre_sums
                    /\ key(seq[n]) \notin DOMAIN cur_sums
        THEN [raised |-> "KeyError", changed |-> <<>>, compared |-> cmpd]
        ELSE [raised |-> "none",
              changed |-> SelectSeq(seq, LAMBDA fname :
                              /\ key(fname) \in DOMAIN pre_sums
                              /\ pre_sums[key(fname)] # cur_sums[key(fname)]),
              compared |-> SubSeq(cmpd, 1, i - 1) \o SubSeq(cmpd, i + 1, Len(cmpd))]

\* The second loop over compared: it looks at the first group only.
replace_changed(cmpd, chg) ==
    IF cmpd # <<>> /\ cmpd[1][1] = "Changed"
    THEN [cmpd EXCEPT ![1] = <<"Changed", chg>>]
    ELSE cmpd

\* From the flags fix-up to pretty_watch(compared, cutoff=args.cutoff)
Cycle ==
    /\ pc = "compare"
    /\ args' = [args EXCEPT !.flags = with_shared(args.flags)]
    /\ LET c == comparison(fs, args'.flags, pre_state, cur_state, TRUE)
           r == reclassify(c.results, pre_state, bound, pre_checksums, cur_checksums)
       IN  /\ cmp' = c
           /\ IF c.raised # "none"
              THEN /\ Raise(c.raised)
                   /\ UNCHANGED <<compared, cycles>>
              ELSE IF r.raised # "none"
              THEN /\ Raise(r.raised)
                   /\ UNCHANGED <<compared, cycles>>
              ELSE /\ compared' = replace_changed(r.compared, r.changed)
                   /\ cycles' = cycles + 1
                   /\ pc' = "while"
                   /\ UNCHANGED err
    /\ UNCHANGED <<fs, bound, pre_state, cur_state, pre_checksums,
                   cur_checksums, envSteps, deletedAt>>

InTry == pc \in {"pre_state", "pre_checksums", "sleep", "cur_state",
                 "cur_checksums", "compare"}

\* except KeyboardInterrupt: print; break
Interrupt ==
    /\ InTry
    /\ pc' = "done"
    /\ UNCHANGED <<fs, args, err, bound, pre_state, cur_state, pre_checksums,
                   cur_checksums, cmp, compared, cycles, envSteps, deletedAt>>

----------------------------------------------------------------------------
(* Other processes changing the watched directory while monitor() runs *)

Running == pc = "while" \/ InTry

EnvChange(tree) ==
    /\ Running
    /\ envSteps < MaxEnvSteps
    /\ fs["w"].exists
    /\ fs' = [fs EXCEPT !["w"] = tree]
    /\ envSteps' = envSteps + 1
    /\ deletedAt' = IF tree = Gone THEN pc ELSE deletedAt
    /\ UNCHANGED <<args, pc, err, bound, pre_state, cur_state, pre_checksums,
                   cur_checksums, cmp, compared, cycles>>

RewriteFile ==
    \E p \in DOMAIN fs["w"].files, a \in Attrs :
        /\ a # fs["w"].files[p]
        /\ EnvChange([fs["w"] EXCEPT !.files[p] = a])

DeleteFile ==
    \E p \in DOMAIN fs["w"].files :
        EnvChange([fs["w"] EXCEPT
            !.files = [q \in DOMAIN fs["w"].files \ {p} |-> fs["w"].files[q]]])

CreateFile ==
    \E p \in {F, DF} \ DOMAIN fs["w"].files, a \in Attrs :
        /\ p = DF => D \in fs["w"].dirs
        /\ EnvChange([fs["w"] EXCEPT
              !.files = [q \in DOMAIN fs["w"].files \cup {p} |->
                            IF q = p THEN a ELSE fs["w"].files[q]]])

DeleteRoot == EnvChange(Gone)

Next ==
    \/ While
    \/ PreState
    \/ PreChecksums
    \/ Sleep
    \/ CurState
    \/ CurChecksums
    \/ Cycle
    \/ Interrupt
    \/ RewriteFile
    \/ DeleteFile
    \/ CreateFile
    \/ DeleteRoot

Spec == Init /\ [][Next]_vars

----------------------------------------------------------------------------
(* Properties of comparison(), checked under SpecCompare, where the two    *)
(* directories v and w do not change during the run.                       *)

LabelOf(ch) ==
    CASE ch = "a" -> "Added"
      [] ch = "c" -> "Changed"
      [] ch = "r" -> "Removed"
      [] ch = "s" -> "Shared"
      [] ch = "u" -> "Unchanged"

Labels(res) == [i \in 1..Len(res) |-> res[i][1]]

\* The relative paths of a directory: its files, and its subdirectories with a
\* trailing separator.
RelEntries(d) == DOMAIN d.files \cup {x \o <<SEP>> : x \in d.dirs}

\* The files both directories hold.
BothFiles == DOMAIN fs["v"].files \cap DOMAIN fs["w"].files

Returned == cmp.called /\ cmp.raised = "none"

GroupData(label) ==
    CASE label = "Added" -> cmp.added
      [] label = "Changed" -> cmp.changed
      [] label = "Removed" -> cmp.removed
      [] label = "Shared" -> cmp.common
      [] label = "Unchanged" -> cmp.unchanged

\* The characters of a string, each kept at its first occurrence only.
RECURSIVE FirstOccurrences(_, _)
FirstOccurrences(s, seen) ==
    IF s = <<>> THEN <<>>
    ELSE IF Head(s) \in seen THEN FirstOccurrences(Tail(s), seen)
    ELSE <<Head(s)>> \o FirstOccurrences(Tail(s), seen \cup {Head(s)})

\* C2 (as claimed): for every flag string, also one with neither 'c' nor 'u',
\* comparison() returns normally, with exactly the requested labels, and the
\* change detector runs only when 'c' or 'u' is requested.
C2_Claim ==
    pc # "main" =>
        /\ Returned
        /\ Range(Labels(cmp.results)) = {LabelOf(ch) : ch \in Range(cmp.flags)}
        /\ cmp.probes # <<>> => (In("c", cmp.flags) \/ In("u", cmp.flags))

\* C3 (as claimed): the groups come in the order of first occurrence of their
\* flag characters, one group per distinct character.
C3_Claim ==
    Returned =>
        Labels(cmp.results) =
            [i \in 1..Len(FirstOccurrences(cmp.flags, {})) |->
                LabelOf(FirstOccurrences(cmp.flags, {})[i])]

\* C3 (amended): when comparison() returns, it returns one group per character
\* of the flag string, repeated characters included, in the order of the
\* characters: "rca" gives Removed, Changed, Added and "aac" gives Added,
\* Added, Changed; each group holds the paths of its category.
C3_OneGroupPerFlagCharacter ==
    Returned =>
        /\ Len(cmp.results) = Len(cmp.flags)
        /\ \A i \in 1..Len(cmp.results) :
              /\ cmp.results[i][1] = LabelOf(cmp.flags[i])
              /\ Range(cmp.results[i][2]) = Range(GroupData(cmp.results[i][1]))
        /\ cmp.flags = <<"r", "c", "a">> =>
              Labels(cmp.results) = <<"Removed", "Changed", "Added">>
        /\ cmp.flags = <<"a", "a", "c">> =>
              Labels(cmp.results) = <<"Added", "Added", "Changed">>

C3_Witness ==
    /\ Returned
    /\ cmp.flags = <<"a", "a", "c">>
    /\ Labels(cmp.results) = <<"Added", "Added", "Changed">>
    /\ cmp.added # <<>>

\* C5: added, removed and common are pairwise disjoint; added with common is
\* the set of relative paths of the second tree, removed with common the set
\* of relative paths of the first tree.
C5_Partition ==
    cmp.called =>
        LET A == Range(cmp.added)
            R == Range(cmp.removed)
            C == Range(cmp.common)
        IN  /\ A \cap R = {}
            /\ A \cap C = {}
            /\ R \cap C = {}
            /\ A \cup C = RelEntries(fs["w"])
            /\ R \cup C = RelEntries(fs["v"])

C5_Witness ==
    /\ cmp.called
    /\ cmp.added # <<>>
    /\ cmp.removed # <<>>
    /\ cmp.common # <<>>

\* C6: with 'c' in the flags, a file of both trees whose sizes differ is in
\* Changed whatever skip_checksum is, and only its size was consulted; with
\* equal sizes the verdict is the inequality of the checksum (skip_checksum
\* false) or of the modification time (skip_checksum true), and only that one
\* fingerprint was consulted besides the size.
C6_SizeThenOneFingerprint ==
    (Returned /\ In("c", cmp.flags)) =>
        \A p \in BothFiles :
            LET a1 == fs["v"].files[p]
                a2 == fs["w"].files[p]
                pair == <<join(cmp.root1, p), join(cmp.root2, p)>>
                tier == IF cmp.skip_checksum THEN "mtime" ELSE "checksum"
                differ == IF cmp.skip_checksum THEN a1.mtime # a2.mtime
                          ELSE a1.content # a2.content
            IN  \E i \in 1..Len(cmp.probes) :
                    /\ cmp.common_with_roots[i] = pair
                    /\ IF SizeOf(a1.content) # SizeOf(a2.content)
                       THEN /\ In(p, cmp.changed)
                            /\ cmp.probes[i].consulted = {"size"}
                       ELSE /\ In(p, cmp.changed) <=> differ
                            /\ cmp.probes[i].consulted = {"size", tier}

C6_Witness ==
    /\ Returned
    /\ In("c", cmp.flags)
    /\ cmp.skip_checksum
    /\ F \in BothFiles
    /\ SizeOf(fs["v"].files[F].content) # SizeOf(fs["w"].files[F].content)
    /\ fs["v"].files[F].mtime = fs["w"].files[F].mtime
    /\ In(F, cmp.changed)
    /\ DF \in BothFiles
    /\ ~In(DF, cmp.changed)

\* C10: when 'c' or 'u' is in the flags, changed and unchanged are disjoint,
\* together they are the common paths that do not end in the separator, and
\* no directory path is in either; directory paths are in Added, Removed and
\* Shared.
C10_ChangedUnchangedPartition ==
    (cmp.called /\ cmp.detector) =>
        LET Ch == Range(cmp.changed)
            Un == Range(cmp.unchanged)
            dirs1 == {x \o <<SEP>> : x \in fs["v"].dirs}
            dirs2 == {x \o <<SEP>> : x \in fs["w"].dirs}
        IN  /\ Returned
            /\ Ch \cap Un = {}
            /\ Ch \cup Un = {p \in Range(cmp.common) : ~endswith(p, <<SEP>>)}
            /\ Ch \cup Un = BothFiles
            /\ \A p \in Ch \cup Un : ~endswith(p, <<SEP>>)
            /\ dirs2 \ dirs1 \subseteq Range(cmp.added)
            /\ dirs1 \ dirs2 \subseteq Range(cmp.removed)
            /\ dirs1 \cap dirs2 \subseteq Range(cmp.common)

C10_Witness ==
    /\ Returned
    /\ In(D \o <<SEP>>, cmp.common)
    /\ cmp.changed # <<>>
    /\ cmp.unchanged # <<>>

----------------------------------------------------------------------------
(* Properties of monitor(), checked under Spec *)

\* A cycle has handed its groups to pretty_watch and the next has not begun.
CycleDone == pc = "while" /\ cycles >= 1

\* The Shared paths whose fingerprints are present in both checksum maps and
\* differ, in the order of the sorted Shared group.
SharedChanged ==
    SelectSeq(sorted(cmp.common), LAMBDA fname :
        LET key == join(pre_state[1].root, fname)
        IN  /\ key \in DOMAIN pre_checksums
            /\ key \in DOMAIN cur_checksums
            /\ pre_checksums[key] # cur_checksums[key])

\* C1 (as claimed): in every cycle, for every flag string holding 'c' at any
\* position, the Changed group handed to the presentation layer is the list
\* of Shared paths whose two checksum-map fingerprints are present and differ.
C1_Claim ==
    (CycleDone /\ In("c", args.flags)) =>
        /\ \E i \in 1..Len(compared) : compared[i][1] = "Changed"
        /\ \A i \in 1..Len(compared) :
              compared[i][1] = "Changed" => compared[i][2] = SharedChanged

\* C4 (as claimed): the watched root deleted while monitor() sleeps ends the
\* loop without an error being raised.
C4_Claim ==
    deletedAt = "sleep" => pc # "raised"

\* C7 (as claimed): whatever the flags, the groups handed to the presentation
\* layer hold no group labelled Shared.
C7_Claim ==
    CycleDone => \A i \in 1..Len(compared) : compared[i][1] # "Shared"

\* C8 (as claimed): in every cycle after the first, the previous-side snapshot
\* and checksum map are the ones the preceding cycle captured as its current
\* side, not recomputed from the file system.
C8_Claim ==
    (pc = "sleep" /\ cycles >= 1 /\ ~args.skip_checksum) =>
        /\ pre_state = cur_state
        /\ pre_checksums = cur_checksums

\* C9 (as claimed): for both values of skip_checksum both checksum maps have
\* been captured before the Shared paths are examined, so the lookup never
\* reads a map that does not exist and the cycle does not fail on it.
C9_Claim ==
    (cmp.called /\ cmp.raised = "none") => err # "NameError"

====
